---- MODULE Spec2Model ----
(***************************************************************************)
(* Karmarkar-Karp k-way number partitioning (src/LDMGPU/ldm.cpp).          *)
(*                                                                         *)
(* The model follows one invocation of KarmarkarKarp(numbers, k): the      *)
(* argument checks, the construction of one singleton Partition per input  *)
(* number, std::make_heap, and the merge loop (pop_heap, move out, second  *)
(* pop_heap, Partition::Merge, push_heap) until one Partition is left.     *)
(*                                                                         *)
(* The standard library calls are modelled by their contracts: make_heap,  *)
(* pop_heap and push_heap yield ANY arrangement that satisfies the heap    *)
(* property for the comparator, and std::sort (which is not stable) yields *)
(* ANY arrangement ordered by the comparator.  Number is std::uint64_t;    *)
(* the model keeps unsigned wrap-around arithmetic at a reduced width of   *)
(* NumberBits bits.                                                        *)
(***************************************************************************)
EXTENDS Integers, Sequences, FiniteSets

VARIABLES numbers, k, heap, partition, result, iter, pc

vars == <<numbers, k, heap, partition, result, iter, pc>>

(***************************************************************************)
(* Bounds of the model.                                                    *)
(***************************************************************************)
MaxLen == 4
MaxK == 3
MaxWeight == 1
NumberBits == 4

\* Bounds of the inputs of SpecBalanced.
BalMaxLen == 5
BalMaxWeight == 3

Modulus == 2 ^ NumberBits

\* The largest value of Number.
MaxNumber == Modulus - 1

Min(a, b) == IF a < b THEN a ELSE b

Max(a, b) == IF a < b THEN b ELSE a

\* The values a Number of the input takes in the model: the small ones and
\* the largest one, with which the sums wrap around.
Weights == (0 .. Min(MaxWeight, MaxNumber)) \cup {MaxNumber}

\* Unsigned arithmetic of Number.
NumberAdd(a, b) == (a + b) % Modulus

NumberSub(a, b) == (a - b + Modulus) % Modulus

(***************************************************************************)
(* Subset: a list of numbers and a cached sum.                             *)
(***************************************************************************)
SubsetEmpty == [numbers_ |-> <<>>, sum_ |-> 0]

SubsetNew(number) == [numbers_ |-> <<number>>, sum_ |-> number]

\* Variant: the list of other is not spliced in.
SubsetMergeDropNumbers(self, other) ==
    [numbers_ |-> self.numbers_,
     sum_ |-> NumberAdd(self.sum_, other.sum_)]

\* Variant: the sum of other is not added.
SubsetMergeKeepSum(self, other) ==
    [numbers_ |-> self.numbers_ \o other.numbers_,
     sum_ |-> self.sum_]

SubsetMerge(self, other) ==
    [numbers_ |-> self.numbers_ \o other.numbers_,
     sum_ |-> NumberAdd(self.sum_, other.sum_)]

SubsetSumGreater(a, b) == a.sum_ > b.sum_

(***************************************************************************)
(* Permutations, used for the contracts of std::sort and the heap calls.   *)
(***************************************************************************)
RECURSIVE PermsOf(_)
PermsOf(S) ==
    IF S = {} THEN {<<>>}
    ELSE UNION {{<<x>> \o f : f \in PermsOf(S \ {x})} : x \in S}

\* The permutations of 1 .. n, as sequences.
Perms == [n \in 0 .. Max(Max(MaxLen, MaxK), BalMaxLen) |-> PermsOf(1 .. n)]

Permute(s, f) == [i \in 1 .. Len(s) |-> s[f[i]]]

\* std::sort(first, last, SubsetSumGreater{}): some arrangement of s in which
\* no element is ordered by the comparator before an element that precedes it.
StdSort(s) ==
    {q \in {Permute(s, f) : f \in Perms[Len(s)]} :
        \A i, j \in 1 .. Len(s) : i < j => ~SubsetSumGreater(q[j], q[i])}

(***************************************************************************)
(* Partition: a vector of k Subsets.                                       *)
(***************************************************************************)
\* Variant: one Subset too many.
PartitionNewOffByOne(number, kk) ==
    [i \in 1 .. (kk + 1) |->
        IF i = 1 THEN [numbers_ |-> <<number>>, sum_ |-> number] ELSE SubsetEmpty]

PartitionNew(number, kk) ==
    [i \in 1 .. kk |->
        IF i = 1 THEN SubsetMerge(SubsetEmpty, SubsetNew(number)) ELSE SubsetEmpty]

difference(p) == NumberSub(p[1].sum_, p[Len(p)].sum_)

\* Variant: other is walked with a forward iterator, largest with largest.
MergePairsForward(self, other) ==
    [i \in 1 .. Len(self) |->
        IF i <= Len(other)
        THEN [numbers_ |-> self[i].numbers_ \o other[i].numbers_,
              sum_ |-> NumberAdd(self[i].sum_, other[i].sum_)]
        ELSE self[i]]

\* The loop of Partition::Merge: slot i of self absorbs the slot of other
\* that the reverse iterator reaches at the same time.
MergePairs(self, other) ==
    [i \in 1 .. Len(self) |->
        IF i <= Len(other)
        THEN SubsetMerge(self[i], other[Len(other) + 1 - i])
        ELSE self[i]]

\* Variant: the std::sort that ends Partition::Merge is left out.
PartitionMergeNoSort(self, other) ==
    {[i \in 1 .. Len(self) |->
        [numbers_ |-> self[i].numbers_ \o other[Len(other) + 1 - i].numbers_,
         sum_ |-> NumberAdd(self[i].sum_, other[Len(other) + 1 - i].sum_)]]}

\* Partition::Merge after its assertion: the pairwise merges and the sort.
PartitionMerge(self, other) == StdSort(MergePairs(self, other))

\* Variant: the comparison is reversed.
DifferenceGreater(a, b) == NumberSub(a[1].sum_, a[Len(a)].sum_) > NumberSub(b[1].sum_, b[Len(b)].sum_)

DifferenceLess(a, b) == difference(a) < difference(b)

(***************************************************************************)
(* The heap calls of <algorithm>, by contract.                             *)
(***************************************************************************)
\* The heap property for DifferenceLess: no parent is less than its child.
IsHeap(s) ==
    \A i \in 2 .. Len(s) : ~DifferenceLess(s[i \div 2], s[i])

HeapArrangements(s) ==
    {q \in {Permute(s, f) : f \in Perms[Len(s)]} : IsHeap(q)}

MakeHeap(s) == HeapArrangements(s)

\* pop_heap: the first element goes to the last position, the rest is a heap.
PopHeap(s) ==
    {Append(q, s[1]) : q \in HeapArrangements(Tail(s))}

PushHeap(s) == HeapArrangements(s)

(***************************************************************************)
(* KarmarkarKarp                                                           *)
(***************************************************************************)
\* Variant: k is not checked.
ValidInputNoK(ns, kk) == ns # <<>>

\* The two assertions at the head of KarmarkarKarp.
ValidInput(ns, kk) == ns # <<>> /\ kk > 0

SeqsUpTo(S, n) == UNION {[1 .. m -> S] : m \in 0 .. n}

Init ==
    /\ numbers \in SeqsUpTo(Weights, MaxLen)
    /\ k \in 0 .. MaxK
    /\ heap = <<>>
    /\ partition = <<>>
    /\ result = <<>>
    /\ iter = 0
    /\ pc = "start"

\* assert(!numbers.empty()); assert(k > 0); heap.reserve(...)
Validate ==
    /\ pc = "start"
    /\ pc' = IF ValidInput(numbers, k) THEN "build" ELSE "abort_input"
    /\ UNCHANGED <<numbers, k, heap, partition, result, iter>>

\* One iteration of the range-for: heap.emplace_back(number, k), with the
\* assertion of the constructor of Partition.
EmplaceBack ==
    /\ pc = "build"
    /\ Len(heap) < Len(numbers)
    /\ IF k > 0
       THEN /\ heap' = Append(heap, PartitionNew(numbers[Len(heap) + 1], k))
            /\ pc' = pc
       ELSE /\ pc' = "abort_input"
            /\ heap' = heap
    /\ UNCHANGED <<numbers, k, partition, result, iter>>

\* std::make_heap(heap.begin(), heap.end(), DifferenceLess{})
MakeHeapStep ==
    /\ pc = "build"
    /\ Len(heap) = Len(numbers)
    /\ heap' \in MakeHeap(heap)
    /\ pc' = "loop"
    /\ UNCHANGED <<numbers, k, partition, result, iter>>

\* Variant: the loop stops one candidate early.
LoopContinuesEarlyExit(h) == Len(h) > 2

\* The test of the while loop.
LoopContinues(h) == Len(h) > 1

\* Loop test true; pop_heap; partition{std::move(heap.back())}; pop_back.
PopFirst ==
    /\ pc = "loop"
    /\ LoopContinues(heap)
    /\ \E h \in PopHeap(heap) :
        /\ partition' = h[Len(h)]
        /\ heap' = SubSeq(h, 1, Len(h) - 1)
    /\ pc' = "pop2"
    /\ UNCHANGED <<numbers, k, result, iter>>

\* The second std::pop_heap: the largest of the rest goes to heap.back().
PopSecond ==
    /\ pc = "pop2"
    /\ heap' \in PopHeap(heap)
    /\ pc' = "merge"
    /\ UNCHANGED <<numbers, k, partition, result, iter>>

\* heap.back().Merge(std::move(partition)), with the assertion of Merge.
MergeStep ==
    /\ pc = "merge"
    /\ IF Len(heap[Len(heap)]) = Len(partition)
       THEN /\ \E m \in PartitionMerge(heap[Len(heap)], partition) :
                 heap' = [heap EXCEPT ![Len(heap)] = m]
            /\ partition' = <<>>
            /\ pc' = "push"
       ELSE /\ pc' = "abort_shape"
            /\ UNCHANGED <<heap, partition>>
    /\ UNCHANGED <<numbers, k, result, iter>>

\* std::push_heap; the end of the loop body.
PushStep ==
    /\ pc = "push"
    /\ heap' \in PushHeap(heap)
    /\ iter' = iter + 1
    /\ pc' = "loop"
    /\ UNCHANGED <<numbers, k, partition, result>>

\* Loop test false: return std::move(heap.front()).
Return ==
    /\ pc = "loop"
    /\ ~LoopContinues(heap)
    /\ result' = heap[1]
    /\ heap' = <<>>
    /\ pc' = "done"
    /\ UNCHANGED <<numbers, k, partition, iter>>

Next ==
    \/ Validate
    \/ EmplaceBack
    \/ MakeHeapStep
    \/ PopFirst
    \/ PopSecond
    \/ MergeStep
    \/ PushStep
    \/ Return

Spec == Init /\ [][Next]_vars

(***************************************************************************)
(* Vocabulary of the properties.                                           *)
(***************************************************************************)
RECURSIVE SeqSum(_)
SeqSum(s) == IF s = <<>> THEN 0 ELSE s[1] + SeqSum(Tail(s))

RECURSIVE Flatten(_)
Flatten(ss) == IF ss = <<>> THEN <<>> ELSE ss[1] \o Flatten(Tail(ss))

\* The numbers a candidate holds, bucket after bucket.
NumbersOf(p) == Flatten([i \in 1 .. Len(p) |-> p[i].numbers_])

\* The candidates that are alive: those in the heap, the one moved out of
\* the heap and not yet merged, and the one returned.
Live ==
    heap \o (IF pc \in {"pop2", "merge"} THEN <<partition>> ELSE <<>>)
         \o (IF pc = "done" THEN <<result>> ELSE <<>>)

LiveNumbers == Flatten([i \in 1 .. Len(Live) |-> NumbersOf(Live[i])])

Count(x, s) == Cardinality({i \in 1 .. Len(s) : s[i] = x})

SameBag(s, t) == Len(s) = Len(t) /\ \A i \in 1 .. Len(s) : Count(s[i], s) = Count(s[i], t)

Built == pc \in {"loop", "pop2", "merge", "push", "done"}

Running == pc \in {"build", "loop", "pop2", "merge", "push", "done"}

\* The documented precondition: the total of the input fits a Number.
NoOverflow == SeqSum(numbers) < Modulus

MaxOf(s) == IF s = <<>> THEN 0 ELSE CHOOSE x \in {s[i] : i \in 1 .. Len(s)} : \A j \in 1 .. Len(s) : s[j] <= x

Sums(p) == {p[i].sum_ : i \in 1 .. Len(p)}

\* Largest cached bucket sum minus smallest cached bucket sum.
Spread(p) ==
    (CHOOSE x \in Sums(p) : \A y \in Sums(p) : y <= x)
    - (CHOOSE x \in Sums(p) : \A y \in Sums(p) : x <= y)

\* A step of MergeStep that merges.
IsMerge == pc = "merge" /\ pc' = "push"

GroupTotal(ns, f, b) == SeqSum([i \in 1 .. Len(ns) |-> IF f[i] = b THEN ns[i] ELSE 0])

\* The numbers can be split into kk groups of equal total.
Balanceable(ns, kk) ==
    \E f \in [1 .. Len(ns) -> 1 .. kk] :
        \A b \in 1 .. kk : GroupTotal(ns, f, b) = GroupTotal(ns, f, 1)

(***************************************************************************)
(* SpecBalanced: KarmarkarKarp on valid inputs that are balanceable or     *)
(* have k = 1, the total fitting a Number.  make_heap may yield every heap *)
(* arrangement of the candidates, so the inputs are taken in               *)
(* non-increasing order without losing a state after MakeHeapStep.         *)
(***************************************************************************)
BalancedInputs(kk) ==
    {ns \in SeqsUpTo(0 .. BalMaxWeight, BalMaxLen) :
        /\ ns # <<>>
        /\ \A i \in 1 .. (Len(ns) - 1) : ns[i] >= ns[i + 1]
        /\ SeqSum(ns) < Modulus
        /\ (kk = 1 \/ Balanceable(ns, kk))}

InitBalanced ==
    /\ k \in 1 .. MaxK
    /\ numbers \in BalancedInputs(k)
    /\ heap = <<>>
    /\ partition = <<>>
    /\ result = <<>>
    /\ iter = 0
    /\ pc = "start"

SpecBalanced == InitBalanced /\ [][Next]_vars

(***************************************************************************)
(* C1  Conservation: the numbers held by all live candidates together are  *)
(* exactly the input numbers taken so far, each once; once the heap is     *)
(* built they are exactly the input, and so are those of the result.       *)
(***************************************************************************)
C1_Conservation ==
    /\ pc = "build" => SameBag(LiveNumbers, SubSeq(numbers, 1, Len(heap)))
    /\ Built => SameBag(LiveNumbers, numbers)
    /\ pc = "done" => SameBag(NumbersOf(result), numbers)

C1_Witness ==
    /\ pc = "done"
    /\ Len(numbers) = MaxLen
    /\ k >= 2
    /\ \E i \in 1 .. k : Len(result[i].numbers_) >= 2
    /\ \E i, j \in 1 .. Len(numbers) : numbers[i] # numbers[j]

(***************************************************************************)
(* C2  Shape: on valid input every live candidate has exactly k buckets,   *)
(* the assertion of Partition::Merge never fails, and the result has k     *)
(* buckets.                                                                *)
(***************************************************************************)
C2_Shape ==
    /\ pc # "abort_shape"
    /\ Running => \A i \in 1 .. Len(Live) : Len(Live[i]) = k
    /\ pc = "done" => Len(result) = k

C2_Witness ==
    /\ pc = "push"
    /\ k = MaxK
    /\ Len(heap) >= 2
    /\ Len(heap[Len(heap)]) = k

(***************************************************************************)
(* C3  Sortedness: the buckets of every live candidate are in              *)
(* non-increasing order of sum, so difference() is the largest sum minus   *)
(* the smallest and the subtraction does not wrap.                         *)
(***************************************************************************)
C3_Sorted ==
    Running =>
        \A c \in 1 .. Len(Live) :
            LET p == Live[c] IN
                /\ \A i, j \in 1 .. Len(p) : i < j => p[i].sum_ >= p[j].sum_
                /\ p[1].sum_ - p[Len(p)].sum_ >= 0
                /\ difference(p) = Spread(p)

C3_Witness ==
    /\ pc = "push"
    /\ k = MaxK
    /\ LET p == heap[Len(heap)] IN
        /\ \A i \in 1 .. k : Len(p[i].numbers_) >= 1
        /\ \A i \in 1 .. (k - 1) : p[i].sum_ > p[i + 1].sum_

(***************************************************************************)
(* C4  Termination: after the construction there are as many candidates   *)
(* as numbers, every iteration of the loop removes exactly one, and on     *)
(* valid input the function returns after exactly Len(numbers) - 1         *)
(* iterations, when one candidate is left.  StepsLeft is the number of     *)
(* steps to the end of the call; every step lowers it by one, and a step   *)
(* can be taken as long as it is positive.                                 *)
(***************************************************************************)
StepsLeft ==
    CASE pc = "start" ->
            IF numbers # <<>> /\ k > 0 THEN 5 * Len(numbers) - 1 ELSE 1
      [] pc = "build" -> (Len(numbers) - Len(heap)) + 4 * Len(numbers) - 2
      [] pc = "loop" -> 4 * Len(heap) - 3
      [] pc = "pop2" -> 4 * Len(heap)
      [] pc = "merge" -> 4 * Len(heap) - 1
      [] pc = "push" -> 4 * Len(heap) - 2
      [] OTHER -> 0

C4_Counts ==
    /\ pc = "loop" => Len(Live) = Len(numbers) - iter
    /\ pc \in {"pop2", "merge"} => Len(Live) = Len(numbers) - iter
    /\ pc = "push" => Len(Live) = Len(numbers) - iter - 1
    /\ pc = "done" => iter = Len(numbers) - 1 /\ Len(Live) = 1
    /\ StepsLeft > 0 => ENABLED Next
    /\ StepsLeft = 0 => pc \in {"done", "abort_input"}

\* C4: the counts hold in every state, every step lowers StepsLeft by one,
\* the first pop of an iteration takes one candidate out of a heap of more
\* than one, and push_heap ends the iteration without changing the count.
C4_Termination ==
    /\ []C4_Counts
    /\ [][StepsLeft' = StepsLeft - 1]_vars
    /\ [][pc = "loop" /\ pc' = "pop2" => Len(heap) > 1 /\ Len(heap') = Len(heap) - 1]_vars
    /\ [][pc = "push" => iter' = iter + 1 /\ Len(Live') = Len(Live)]_vars

C4_Witness ==
    /\ pc = "done"
    /\ Len(numbers) = MaxLen
    /\ iter = MaxLen - 1
    /\ k >= 2

(***************************************************************************)
(* C5  Zero spread on balanceable input, as claimed: whenever the numbers  *)
(* can be split into k groups of equal total, or k = 1, the result has     *)
(* difference() = 0.                                                       *)
(***************************************************************************)
C5_ZeroSpreadBalanceable ==
    (pc = "done" /\ NoOverflow /\ (k = 1 \/ Balanceable(numbers, k)))
        => difference(result) = 0

AllEqual(ns) == \A i, j \in 1 .. Len(ns) : ns[i] = ns[j]

(***************************************************************************)
(* C5 (amended)  Zero spread when k = 1, or when all numbers are equal and *)
(* their count is a multiple of k.                                         *)
(***************************************************************************)
C5_ZeroSpreadEqualWeights ==
    (pc = "done" /\ NoOverflow /\ (k = 1 \/ (AllEqual(numbers) /\ Len(numbers) % k = 0)))
        => difference(result) = 0

C5_Witness ==
    /\ pc = "done"
    /\ k >= 2
    /\ Len(numbers) = 2 * k
    /\ AllEqual(numbers)
    /\ numbers[1] > 0
    /\ difference(result) = 0

(***************************************************************************)
(* C6  Input validation: when the numbers are empty or k = 0 the first     *)
(* step fails the assertion, and no candidate, heap, merge or result ever  *)
(* exists.                                                                 *)
(***************************************************************************)
C6_InvalidInput ==
    /\ []((numbers = <<>> \/ k = 0) =>
            /\ pc \in {"start", "abort_input"}
            /\ heap = <<>> /\ partition = <<>> /\ result = <<>> /\ iter = 0)
    /\ [][(pc = "start" /\ (numbers = <<>> \/ k = 0)) => pc' = "abort_input"]_vars

C6_Witness ==
    /\ pc = "abort_input"
    /\ k = 0
    /\ numbers # <<>>

(***************************************************************************)
(* C7  Largest spread first: the candidate moved out first has a spread    *)
(* no smaller than any candidate left, the candidate at heap.back() after  *)
(* the second pop_heap has a spread no smaller than the rest, the merge    *)
(* is back.Merge(moved-out candidate), and after push_heap the front of    *)
(* the heap again has the largest spread.                                  *)
(***************************************************************************)
C7_Order ==
    /\ pc = "pop2" =>
        \A i \in 1 .. Len(heap) : Spread(heap[i]) <= Spread(partition)
    /\ pc = "merge" =>
        /\ \A i \in 1 .. Len(heap) : Spread(heap[i]) <= Spread(heap[Len(heap)])
        /\ Spread(heap[Len(heap)]) <= Spread(partition)
    /\ pc = "loop" =>
        \A i \in 1 .. Len(heap) : Spread(heap[i]) <= Spread(heap[1])

\* C7: the order of extraction holds in every state, and every merging step
\* is heap.back().Merge(partition): the rest of the heap is untouched and each
\* bucket holds the numbers of a bucket of back before those of partition.
C7_LargestSpreadFirst ==
    /\ []C7_Order
    /\ [][IsMerge =>
            /\ partition' = <<>>
            /\ Len(heap') = Len(heap)
            /\ \A i \in 1 .. (Len(heap) - 1) : heap'[i] = heap[i]
            /\ \A j \in 1 .. k : \E i \in 1 .. k :
                  heap'[Len(heap)][j].numbers_
                      = heap[Len(heap)][i].numbers_ \o partition[k + 1 - i].numbers_]_vars

C7_Witness ==
    /\ pc = "merge"
    /\ Len(heap) >= 2
    /\ Spread(heap[Len(heap)]) > Spread(heap[1])
    /\ Spread(partition) > Spread(heap[Len(heap)])

(***************************************************************************)
(* C8  Largest with smallest: Partition::Merge leaves, in some order, the  *)
(* k buckets self[i] followed by other[k-1-i] (0-based), each with the     *)
(* numbers of self's bucket before those of other's and the two sums       *)
(* added.                                                                  *)
(***************************************************************************)
C8_Pairing ==
    [][IsMerge =>
        LET self == heap[Len(heap)]
            other == partition
            merged == heap'[Len(heap)]
        IN  /\ Len(merged) = k
            /\ \E f \in Perms[k] : \A i \in 1 .. k :
                /\ merged[f[i]].numbers_ = self[i].numbers_ \o other[k + 1 - i].numbers_
                /\ NoOverflow => merged[f[i]].sum_ = self[i].sum_ + other[k + 1 - i].sum_]_vars

C8_Witness ==
    /\ pc = "push"
    /\ k = MaxK
    /\ NoOverflow
    /\ LET p == heap[Len(heap)] IN
        /\ \A i \in 1 .. k : Len(p[i].numbers_) >= 1
        /\ \E i \in 1 .. k : Len(p[i].numbers_) >= 2
        /\ p[1].sum_ > p[k].sum_

(***************************************************************************)
(* C9  Bucket sum: when the total of the input fits a Number, the cached   *)
(* sum of every bucket of every live candidate is the sum of the numbers   *)
(* the bucket holds.                                                       *)
(***************************************************************************)
C9_CachedSum ==
    (Running /\ NoOverflow) =>
        \A c \in 1 .. Len(Live) : \A i \in 1 .. Len(Live[c]) :
            Live[c][i].sum_ = SeqSum(Live[c][i].numbers_)

C9_Witness ==
    /\ pc = "loop"
    /\ NoOverflow
    /\ k >= 2
    /\ \E c \in 1 .. Len(heap) : \E i \in 1 .. k :
        /\ Len(heap[c][i].numbers_) >= 2
        /\ heap[c][i].sum_ >= 2

(***************************************************************************)
(* C10  Spread bound: when the total of the input fits a Number, a merge   *)
(* yields a spread no larger than the larger spread of its two operands,   *)
(* and no live candidate has a spread above the largest input number.      *)
(***************************************************************************)
C10_Bounded ==
    (Running /\ NoOverflow) =>
        \A c \in 1 .. Len(Live) : difference(Live[c]) <= MaxOf(numbers)

\* C10: the bound by the largest input number holds in every state, and no
\* merging step yields a spread above the larger spread of its operands.
C10_SpreadBound ==
    /\ []C10_Bounded
    /\ [][(IsMerge /\ NoOverflow) =>
            difference(heap'[Len(heap)])
                <= Max(difference(heap[Len(heap)]), difference(partition))]_vars

C10_Witness ==
    /\ pc = "push"
    /\ NoOverflow
    /\ k >= 2
    /\ Len(NumbersOf(heap[Len(heap)])) >= 3
    /\ difference(heap[Len(heap)]) = MaxOf(numbers)
    /\ MaxOf(numbers) > 0

====
